---------------------------- MODULE Spec2Model ----------------------------
(***************************************************************************)
(* The reactive core of vanilla-spirit: the publish/subscribe store        *)
(* (createStore: getState, setState, subscribe and the unsubscribe closure *)
(* it returns), the InteractionModule component, and the wiring of main.js.*)
(*                                                                         *)
(* JavaScript runs one call at a time, so the model keeps an explicit call *)
(* stack: a setState call installs the new snapshot and then iterates the  *)
(* listeners array (Array.prototype.forEach), each listener runs in a      *)
(* frame on top of the setState frame that invoked it, and an uncaught     *)
(* exception unwinds the whole stack.  Callers act only when the stack is  *)
(* empty.                                                                  *)
(***************************************************************************)
EXTENDS Integers, Sequences, FiniteSets, TLC

VARIABLES
    heap,        \* the objects allocated so far; a reference is an index
    state,       \* createStore's `state`: reference of the current snapshot
    listeners,   \* createStore's `listeners` array
    unsubs,      \* the unsubscribe closures returned by subscribe, in call order
    stack,       \* the call stack, innermost frame last
    calls,       \* number of setState calls entered so far
    log,         \* listener invocations of the current outermost setState:
                 \* who, the reference and values received, by which call
    invoked,     \* per listener: how many times it was invoked
    outcome,     \* how the last outermost call ended: idle, running, returned, threw
    held,        \* what a reader last got from getState: reference, values seen
    inputValue,  \* InteractionModule: input.value of the display field
    writes,      \* InteractionModule: number of assignments to input.value
    lastEvent,   \* the DOM event dispatched most recently on the trigger
    dom,         \* InteractionModule: the nodes, their attributes, the bindings
    upd,         \* calls of the component's update: how many, the last argument,
                 \* whether it repeated the argument of the call before,
                 \* the value last rendered
    dispatched,  \* calls of onAction: how many, the last argument, and what
                 \* the store and the display were like when it was made
    ops          \* number of operations the application has performed

vars == << heap, state, listeners, unsubs, stack, calls, log, invoked,
           outcome, held, inputValue, writes, lastEvent, dom, upd,
           dispatched, ops >>

---------------------------------------------------------------------------
(* Bounds of the model *)

\* how many operations (store calls, DOM events) the application performs
MaxOps == 4

---------------------------------------------------------------------------
(* JavaScript values and objects *)

Str(s) == [type |-> "string", v |-> s]

Num1 == [type |-> "number", v |-> "1"]

EmptyObj == [k \in {} |-> Str("")]

\* a property value that is an object: a reference, told apart by identity
Obj(name) == [type |-> "object", v |-> name]

\* obj[key], with a missing property reading as undefined
Undefined == [type |-> "undefined", v |-> "undefined"]

Get(obj, key) == IF key \in DOMAIN obj THEN obj[key] ELSE Undefined

\* `{ ...s, ...p }`: the own keys of s, then those of p over them
MergeWrongOrder(s, p) ==
    [k \in DOMAIN s \cup DOMAIN p |-> IF k \in DOMAIN s THEN s[k] ELSE p[k]]

\* a deep merge: where the state and the partial both hold an object, the
\* two are merged into a new object
MergeDeep(s, p) ==
    [k \in DOMAIN s \cup DOMAIN p |->
        IF k \in DOMAIN p
        THEN IF k \in DOMAIN s /\ s[k].type = "object" /\ p[k].type = "object"
             THEN Obj(s[k].v \o "+" \o p[k].v)
             ELSE p[k]
        ELSE s[k]]

\* a merge that takes from p only the keys the state already has
MergeKnownKeys(s, p) ==
    [k \in DOMAIN s |-> IF k \in DOMAIN p THEN p[k] ELSE s[k]]

Merge(s, p) ==
    [k \in DOMAIN s \cup DOMAIN p |-> IF k \in DOMAIN p THEN p[k] ELSE s[k]]

\* the string a DOM string attribute holds after `el.value = x`
ToDomString(x) == x.v

\* `x || ''` on the values of the model
OrEmpty(x) == IF x.type = "undefined" \/ x = Str("") THEN Str("") ELSE x

ClickText == Str("Click!")

\* the partials the callers of setState pass
Partials ==
    { EmptyObj, [text |-> ClickText], [count |-> Num1],
      [text |-> ClickText, count |-> Num1],
      [user |-> Obj("u1")], [user |-> Obj("u2")] }

---------------------------------------------------------------------------
(* Listeners.  A listener is a function identity; what its body does is    *)
(* fixed per identity.                                                     *)

\* "A", "B": record what they receive and return.
\* "T": throws.  "U": calls its own unsubscribe function.
\* "R": if (newState.count === undefined) store.setState({ count: 1 }).
\* "S": store.subscribe(A).
ListenerIds == { "A", "B", "T", "U", "R", "S" }

\* main.js's subscriber, (newState) => interaction.update(newState)
UpdateListener == "update"

Kind(l) ==
    CASE l \in { "A", "B" } -> "plain"
      [] l = "T" -> "thrower"
      [] l = "U" -> "selfunsub"
      [] l = "R" -> "reentrant"
      [] l = "S" -> "subscriber"
      [] OTHER -> "update"

---------------------------------------------------------------------------
(* Sequences as JavaScript arrays *)

Range(seq) == { seq[i] : i \in DOMAIN seq }

Count(seq, x) == Cardinality({ i \in DOMAIN seq : seq[i] = x })

\* listeners.indexOf(listener), 1-based, 0 for "not found" (-1 in JavaScript)
IndexOf(seq, x) ==
    IF x \in Range(seq)
    THEN CHOOSE i \in DOMAIN seq : seq[i] = x /\ \A j \in 1..(i - 1) : seq[j] # x
    ELSE 0

\* seq.splice(i, 1) for a found index
SpliceOne(seq, i) == SubSeq(seq, 1, i - 1) \o SubSeq(seq, i + 1, Len(seq))

\* the bug `listeners.splice(listeners.indexOf(listener), 1)` without the test:
\* splice(-1, 1) deletes the last element
RemoveUnguarded(seq, x) ==
    IF IndexOf(seq, x) > 0 THEN SpliceOne(seq, IndexOf(seq, x))
    ELSE SubSeq(seq, 1, Len(seq) - 1)

\* the bug `if (index)` / `if (index > 0)`: a listener at index 0 is never removed
RemoveNotFirst(seq, x) ==
    IF IndexOf(seq, x) > 1 THEN SpliceOne(seq, IndexOf(seq, x)) ELSE seq

\* the removal by filter, listeners.filter(l => l !== listener): every
\* occurrence goes
RemoveAll(seq, x) == SelectSeq(seq, LAMBDA y : y # x)

\* the body of the unsubscribe closure:
\*   const index = listeners.indexOf(listener);
\*   if (index > -1) listeners.splice(index, 1);
RemoveListener(seq, x) ==
    IF IndexOf(seq, x) > 0 THEN SpliceOne(seq, IndexOf(seq, x)) ELSE seq

---------------------------------------------------------------------------
(* The call stack *)

Top == stack[Len(stack)]

Pop == SubSeq(stack, 1, Len(stack) - 1)

\* a running setState: its call number, its argument, the forEach position k
\* (1-based), the array length forEach read when it started, the snapshot
\* that was current when the call was made, the one the call installs, and
\* the listeners array as forEach found it
SetStateFrame(p, n) ==
    [op |-> "setState", call |-> calls + 1, p |-> p, k |-> 1, len |-> n,
     l |-> "-", pc |-> "-", prev |-> state, mine |-> Len(heap) + 1,
     subs |-> listeners]

\* a running listener: who, invoked by which call, its entry in the log
ListenerFrame(l, f, pc) ==
    [op |-> "listener", call |-> f.call, p |-> EmptyObj, k |-> Len(log) + 1,
     len |-> 0, l |-> l, pc |-> pc, prev |-> f.prev, mine |-> f.mine,
     subs |-> <<>>]

Idle == stack = <<>>

---------------------------------------------------------------------------
(* InteractionModule *)

\* a text holding the character that ends a double-quoted HTML attribute
QuoteText == Str("say \"hi\"")

\* how the HTML parser reads value="..." once the template is interpolated
\* without escaping: the attribute value ends at the first double quote
AttrValue(str) == IF str = "say \"hi\"" THEN "say " ELSE str

\* value="${state.text || ''}" in the component's innerHTML
InitialValue(s) == AttrValue(ToDomString(OrEmpty(Get(s, "text"))))

\* the attributes of <input type="text" data-ref="display" readonly value=...>
DisplayAttributes(s) ==
    ("type" :> "text") @@ ("data-ref" :> "display") @@ ("readonly" :> "")
        @@ ("value" :> InitialValue(s))

Events == { "mousedown", "mouseup", "mouseleave" }

\* the DOM the constructor builds: the container created by createElement,
\* the two nodes its innerHTML creates, found again by querySelector, and
\* the events a listener was added for on the trigger
NewDom(s) ==
    [root |-> 1, display |-> 2, trigger |-> 3, nodes |-> 3,
     rootAttrs |-> ("data-component" :> "interaction-module"),
     displayAttrs |-> DisplayAttributes(s),
     triggerAttrs |-> ("data-ref" :> "trigger"),
     bound |-> Events]

\* the bindings without the one for mouseleave: that event dispatches what
\* leaves the text as it is
EventPartialNoLeave(e) ==
    CASE e = "mousedown" -> [text |-> ClickText]
      [] e = "mouseup" -> [text |-> Str("")]
      [] OTHER -> EmptyObj

\* bindings that toggle on what the display shows
EventPartialToggle(e) ==
    IF inputValue = "" THEN [text |-> ClickText] ELSE [text |-> Str("")]

\* the partial each event binding dispatches through onAction
EventPartial(e) ==
    CASE e = "mousedown" -> [text |-> ClickText]
      [] e = "mouseup" -> [text |-> Str("")]
      [] e = "mouseleave" -> [text |-> Str("")]

\* one call of onAction(p), with what was there when it was made: the
\* store's snapshot, the number of assignments to the display value and the
\* number of update calls
Dispatch(p) ==
    [n |-> dispatched.n + 1, p |-> p, from |-> state, w |-> writes,
     u |-> upd.n]

\* update without the comparison: assigns on every call
UpdateAlways(newState) ==
    /\ inputValue' = ToDomString(Get(newState, "text"))
    /\ writes' = writes + 1
    /\ dom' = dom

\* update that never patches the DOM
UpdateNever(newState) == UNCHANGED << inputValue, writes, dom >>

\* the full re-render: container.innerHTML = `...` makes new nodes, and the
\* listeners added to the old trigger are gone with it
UpdateRebuild(newState) ==
    /\ inputValue' = InitialValue(newState)
    /\ writes' = writes + 1
    /\ dom' = [dom EXCEPT !.display = dom.nodes + 1,
                          !.trigger = dom.nodes + 2,
                          !.nodes = dom.nodes + 2,
                          !.displayAttrs = DisplayAttributes(newState),
                          !.bound = {}]

\* update that renders the state it was given the time before
UpdateStale(newState) ==
    /\ inputValue' = ToDomString(Get(upd.arg, "text"))
    /\ writes' = writes + 1
    /\ dom' = dom

\* const update = (newState) => {
\*     if (input.value !== newState.text) input.value = newState.text; }
\* nothing else of the DOM is touched
Update(newState) ==
    /\ IF Str(inputValue) # Get(newState, "text")
       THEN /\ inputValue' = ToDomString(Get(newState, "text"))
            /\ writes' = writes + 1
       ELSE UNCHANGED << inputValue, writes >>
    /\ dom' = dom

\* one call of interaction.update(s), by whoever holds the component; twice
\* tells that the call before it was given a state with the same fields,
\* cache is the value last rendered: the text the last assignment was given,
\* and before any assignment what the constructor put in the field
RunUpdate(s) ==
    /\ Update(s)
    /\ upd' = [n |-> upd.n + 1, arg |-> s,
               twice |-> (upd.n >= 1 /\ upd.arg = s),
               cache |-> IF writes' # writes THEN Get(s, "text")
                         ELSE upd.cache]

---------------------------------------------------------------------------
(* createStore *)

\* the bug `Object.assign(state, newState)`: the snapshot is changed in place
InstallInPlace(p) ==
    /\ heap' = [heap EXCEPT ![state] = Merge(heap[state], p)]
    /\ state' = state

\* the bug `state = newState`: the partial replaces the snapshot
InstallReplace(p) ==
    /\ heap' = Append(heap, p)
    /\ state' = Len(heap) + 1

\* state = { ...state, ...newState };  a new object, then the assignment
InstallSnapshot(p) ==
    /\ heap' = Append(heap, Merge(heap[state], p))
    /\ state' = Len(heap) + 1

\* the bug of notifying only on a change:
\*   if (changed) listeners.forEach(...)
ForEachLengthIfChanged(p) ==
    IF Merge(heap[state], p) = heap[state] THEN 0 ELSE Len(listeners)

\* a store that does not notify for a setState made while it is notifying:
\*   if (notifying) return;
ForEachLengthUnlessNested(p) == IF stack # <<>> THEN 0 ELSE Len(listeners)

\* the number of indices listeners.forEach(...) will visit: the array's
\* length when forEach starts, whatever the partial was
ForEachLength(p) == Len(listeners)

\* setState up to the start of listeners.forEach(...)
EnterSetState(p, below) ==
    /\ InstallSnapshot(p)
    /\ calls' = calls + 1
    /\ stack' = Append(below, SetStateFrame(p, ForEachLength(p)))

\* store.setState(p) called by application code
CallSetState(p) ==
    /\ Idle
    /\ ops < MaxOps
    /\ ops' = ops + 1
    /\ EnterSetState(p, stack)
    /\ log' = <<>>
    /\ outcome' = "running"
    /\ UNCHANGED << listeners, unsubs, invoked, held, inputValue, writes,
                    lastEvent, dom, upd, dispatched >>

\* what one forEach iteration does with a listener invoked asynchronously
\* (setTimeout(() => listener(state))): it is queued, and does not run
InvokeDeferred(f, l) ==
    /\ stack' = Append(Pop, [f EXCEPT !.k = f.k + 1])
    /\ log' = Append(log, [l |-> l, ref |-> state, val |-> heap[state],
                           call |-> f.call, done |-> FALSE])
    /\ UNCHANGED << invoked, inputValue, writes, dom, upd >>

\* the bug of notifying with the snapshot the call found:
\*   const prev = state; state = { ... }; listeners.forEach(l => l(prev))
PassedPrev(f) == f.prev

\* the notification with the snapshot the call computed:
\*   const next = { ...state, ...newState }; state = next;
\*   listeners.forEach(listener => listener(next))
PassedComputed(f) == f.mine

\* the argument of listener(state): the variable `state`, read at the call
Passed(f) == state

\* listener(state): the listener is entered with the current snapshot
Invoke(f, l) ==
    /\ stack' = Append(Append(Pop, [f EXCEPT !.k = f.k + 1]),
                       ListenerFrame(l, f,
                           IF Kind(l) \in { "plain", "update" }
                           THEN "ret" ELSE "body"))
    /\ log' = Append(log, [l |-> l, ref |-> Passed(f),
                           val |-> heap[Passed(f)],
                           call |-> f.call, done |-> FALSE])
    /\ invoked' = [invoked EXCEPT ![l] = @ + 1]
    /\ IF Kind(l) = "update"
       THEN RunUpdate(heap[Passed(f)])
       ELSE UNCHANGED << inputValue, writes, dom, upd >>

\* one iteration of a loop that reads the length again each time:
\*   for (let i = 0; i < listeners.length; i++) listeners[i](state)
NotifyLiveLength ==
    /\ ~Idle
    /\ Top.op = "setState"
    /\ Top.k <= Len(listeners)
    /\ Invoke(Top, listeners[Top.k])
    /\ UNCHANGED << heap, state, listeners, unsubs, calls, outcome, held,
                    lastEvent, dispatched, ops >>

\* one iteration of listeners.forEach(listener => listener(state)): index k
\* is visited when it is below the length read at the start, and its
\* callback runs when the array still has that index
Notify ==
    /\ ~Idle
    /\ Top.op = "setState"
    /\ Top.k <= Top.len
    /\ IF Top.k <= Len(listeners)
       THEN Invoke(Top, listeners[Top.k])
       ELSE /\ stack' = Append(Pop, [Top EXCEPT !.k = Top.k + 1])
            /\ UNCHANGED << log, invoked, inputValue, writes, dom, upd >>
    /\ UNCHANGED << heap, state, listeners, unsubs, calls, outcome, held,
                    lastEvent, dispatched, ops >>

\* the return of a listener whose write to the display fires an input event
\* that is bound to onAction: the value just written is dispatched again
ListenerReturnFeedback ==
    /\ ~Idle
    /\ Top.op = "listener"
    /\ Top.pc = "ret"
    /\ log' = [log EXCEPT ![Top.k].done = TRUE]
    /\ IF Kind(Top.l) = "update" /\ writes > dispatched.w
       THEN /\ EnterSetState([text |-> Str(inputValue)], Pop)
            /\ dispatched' = Dispatch([text |-> Str(inputValue)])
            /\ UNCHANGED << listeners, unsubs, invoked, outcome, held,
                            inputValue, writes, lastEvent, dom, upd, ops >>
       ELSE /\ stack' = Pop
            /\ UNCHANGED << heap, state, listeners, unsubs, calls, invoked,
                            outcome, held, inputValue, writes, lastEvent,
                            dom, upd, dispatched, ops >>

\* a listener returns to the forEach that invoked it
ListenerReturn ==
    /\ ~Idle
    /\ Top.op = "listener"
    /\ Top.pc = "ret"
    /\ stack' = Pop
    /\ log' = [log EXCEPT ![Top.k].done = TRUE]
    /\ UNCHANGED << heap, state, listeners, unsubs, calls, invoked, outcome,
                    held, inputValue, writes, lastEvent, dom, upd,
                    dispatched, ops >>

\* the exception kept aside while forEach goes on with the next listener
ListenerThrowIsolated ==
    /\ ~Idle
    /\ Top.op = "listener"
    /\ Top.pc = "body"
    /\ Kind(Top.l) = "thrower"
    /\ stack' = Pop
    /\ outcome' = "threw"
    /\ UNCHANGED << heap, state, listeners, unsubs, calls, log, invoked,
                    held, inputValue, writes, lastEvent, dom, upd,
                    dispatched, ops >>

\* a listener throws: nothing on the stack catches, every frame is left
ListenerThrow ==
    /\ ~Idle
    /\ Top.op = "listener"
    /\ Top.pc = "body"
    /\ Kind(Top.l) = "thrower"
    /\ stack' = <<>>
    /\ outcome' = "threw"
    /\ UNCHANGED << heap, state, listeners, unsubs, calls, log, invoked,
                    held, inputValue, writes, lastEvent, dom, upd,
                    dispatched, ops >>

\* forEach has visited every index: setState returns
SetStateReturn ==
    /\ ~Idle
    /\ Top.op = "setState"
    /\ Top.k > Top.len
    /\ stack' = Pop
    /\ outcome' = IF Len(stack) = 1 THEN "returned" ELSE outcome
    /\ UNCHANGED << heap, state, listeners, unsubs, calls, log, invoked,
                    held, inputValue, writes, lastEvent, dom, upd,
                    dispatched, ops >>

\* the bug of handing out a copy: getState: () => ({ ...state })
GetStateCopy ==
    /\ Idle
    /\ ops < MaxOps
    /\ ops' = ops + 1
    /\ heap' = Append(heap, heap[state])
    /\ held' = [ref |-> Len(heap) + 1, val |-> heap[state], at |-> calls]
    /\ UNCHANGED << state, listeners, unsubs, stack, calls, log,
                    invoked, outcome, inputValue, writes, lastEvent, dom,
                    upd, dispatched >>

\* getState: () => state, called by a reader that keeps what it got and
\* when (after how many setState calls) it got it
\*   const snapshot = store.getState();
GetState ==
    /\ Idle
    /\ ops < MaxOps
    /\ ops' = ops + 1
    /\ held' = [ref |-> state, val |-> heap[state], at |-> calls]
    /\ UNCHANGED << heap, state, listeners, unsubs, stack, calls, log,
                    invoked, outcome, inputValue, writes, lastEvent, dom,
                    upd, dispatched >>

\* number of subscribe(l) calls made so far
SubCalls(l) == Cardinality({ i \in DOMAIN unsubs : unsubs[i].l = l })

\* the closure subscribe(l) returns; beside the captured listener it carries
\* the bookkeeping of its calls: how many, and at the first one whether l
\* held at most one entry and how many subscribe(l) calls had been made;
\* and of the subscription: after how many setState calls it was made, and
\* the call whose round was notifying the listener that made it (0 if none)
NewUnsub(l) ==
    [l |-> l, calls |-> 0, subAt |-> calls, soleAt |-> FALSE, subsAt |-> 0,
     inside |-> IF stack = <<>> THEN 0 ELSE stack[Len(stack)].call]

\* the bug listeners.unshift(listener)
Unshift(seq, l) == << l >> \o seq

\* a subscribe that deduplicates: if (!listeners.includes(listener)) push
PushUnique(seq, l) == IF l \in Range(seq) THEN seq ELSE Append(seq, l)

\* listeners.push(listener)
Push(seq, l) == Append(seq, l)

\* a subscribe that hands the current snapshot to the new listener at once:
\* listeners.push(listener); listener(state)
SubscribeAndNotify(l) ==
    /\ Idle
    /\ ops < MaxOps
    /\ ops' = ops + 1
    /\ listeners' = Push(listeners, l)
    /\ unsubs' = Append(unsubs, NewUnsub(l))
    /\ invoked' = [invoked EXCEPT ![l] = @ + 1]
    /\ UNCHANGED << heap, state, stack, calls, log, outcome, held,
                    inputValue, writes, lastEvent, dom, upd, dispatched >>

\* subscribe: listeners.push(listener); return () => { ... }
Subscribe(l) ==
    /\ Idle
    /\ ops < MaxOps
    /\ ops' = ops + 1
    /\ listeners' = Push(listeners, l)
    /\ unsubs' = Append(unsubs, NewUnsub(l))
    /\ UNCHANGED << heap, state, stack, calls, log, invoked, outcome, held,
                    inputValue, writes, lastEvent, dom, upd, dispatched >>

\* one call of the closure unsubs[i]
RunUnsub(i) ==
    LET u == unsubs[i]
    IN  /\ listeners' = RemoveListener(listeners, u.l)
        /\ unsubs' = [unsubs EXCEPT ![i] =
               IF u.calls = 0
               THEN [u EXCEPT !.calls = 1,
                              !.soleAt = Count(listeners, u.l) <= 1,
                              !.subsAt = SubCalls(u.l)]
               ELSE [u EXCEPT !.calls = u.calls + 1]]

\* application code calls a function that subscribe returned
Unsubscribe(i) ==
    /\ Idle
    /\ ops < MaxOps
    /\ ops' = ops + 1
    /\ RunUnsub(i)
    /\ UNCHANGED << heap, state, stack, calls, log, invoked, outcome, held,
                    inputValue, writes, lastEvent, dom, upd, dispatched >>

\* the closure a self-unsubscribing listener calls: the one its first
\* subscription returned
OwnUnsub(l) ==
    CHOOSE i \in DOMAIN unsubs :
        unsubs[i].l = l /\ \A j \in 1..(i - 1) : unsubs[j].l # l

\* body of "U": off()
ListenerUnsubscribes ==
    /\ ~Idle
    /\ Top.op = "listener"
    /\ Top.pc = "body"
    /\ Kind(Top.l) = "selfunsub"
    /\ RunUnsub(OwnUnsub(Top.l))
    /\ stack' = Append(Pop, [Top EXCEPT !.pc = "ret"])
    /\ UNCHANGED << heap, state, calls, log, invoked, outcome, held,
                    inputValue, writes, lastEvent, dom, upd, dispatched, ops >>

\* the bug of subscribing at the front while a round is in progress
SubscribeInsideFirst(l) ==
    /\ listeners' = << l >> \o listeners
    /\ unsubs' = Append(unsubs, NewUnsub(l))

\* listeners.push(listener); return () => { ... }, the body of subscribe
\* when a listener calls it
SubscribeInside(l) ==
    /\ listeners' = Push(listeners, l)
    /\ unsubs' = Append(unsubs, NewUnsub(l))

\* body of "S": store.subscribe(A)
ListenerSubscribes ==
    /\ ~Idle
    /\ Top.op = "listener"
    /\ Top.pc = "body"
    /\ Kind(Top.l) = "subscriber"
    /\ SubscribeInside("A")
    /\ stack' = Append(Pop, [Top EXCEPT !.pc = "ret"])
    /\ UNCHANGED << heap, state, calls, log, invoked, outcome, held,
                    inputValue, writes, lastEvent, dom, upd, dispatched, ops >>

\* body of "R": if (newState.count === undefined) store.setState({ count: 1 })
ListenerSetsState ==
    /\ ~Idle
    /\ Top.op = "listener"
    /\ Top.pc = "body"
    /\ Kind(Top.l) = "reentrant"
    /\ IF Get(heap[log[Top.k].ref], "count") = Undefined
       THEN EnterSetState([count |-> Num1],
                          Append(Pop, [Top EXCEPT !.pc = "ret"]))
       ELSE /\ stack' = Append(Pop, [Top EXCEPT !.pc = "ret"])
            /\ UNCHANGED << heap, state, calls >>
    /\ UNCHANGED << listeners, unsubs, log, invoked, outcome, held,
                    inputValue, writes, lastEvent, dom, upd, dispatched, ops >>

\* bindings with a guard: an event that asks for the text the state already
\* has is dropped
DomEventGuarded(e) ==
    /\ Idle
    /\ ops < MaxOps
    /\ e \in dom.bound
    /\ ops' = ops + 1
    /\ lastEvent' = e
    /\ IF Get(heap[state], "text") = Get(EventPartial(e), "text")
       THEN UNCHANGED << heap, state, calls, stack, log, outcome, dispatched >>
       ELSE /\ EnterSetState(EventPartial(e), stack)
            /\ log' = <<>>
            /\ outcome' = "running"
            /\ dispatched' = Dispatch(EventPartial(e))
    /\ UNCHANGED << listeners, unsubs, invoked, held, inputValue, writes,
                    dom, upd >>

\* a DOM event on the trigger button of the wired demo: the binding calls
\* onAction(partial), which is main.js's (update) => { store.setState(update) }
DomEvent(e) ==
    /\ Idle
    /\ ops < MaxOps
    /\ e \in dom.bound
    /\ ops' = ops + 1
    /\ EnterSetState(EventPartial(e), stack)
    /\ log' = <<>>
    /\ outcome' = "running"
    /\ lastEvent' = e
    /\ dispatched' = Dispatch(EventPartial(e))
    /\ UNCHANGED << listeners, unsubs, invoked, held, inputValue, writes,
                    dom, upd >>

---------------------------------------------------------------------------
(* The store used by arbitrary callers *)

\* the objects callers pass to createStore
InitialStates == { [text |-> Str("")] }

\* a createStore that keeps the caller's object itself: let state = initialState
CreateStoreAliased(s0) ==
    /\ heap = << s0, s0 >>
    /\ state = 1

\* let state = { ...initialState }: heap[1] is the caller's object, heap[2]
\* the copy the store keeps, equal field by field and another reference
CreateStore(s0) ==
    /\ heap = << s0, s0 >>
    /\ state = 2

\* createStore(initialState): let state = { ...initialState }; listeners = []
Init ==
    /\ \E s0 \in InitialStates :
          /\ CreateStore(s0)
          /\ inputValue = InitialValue(s0)
    /\ listeners = <<>>
    /\ unsubs = <<>>
    /\ stack = <<>>
    /\ calls = 0
    /\ log = <<>>
    /\ invoked = [l \in ListenerIds \cup { UpdateListener } |-> 0]
    /\ outcome = "idle"
    /\ held = [ref |-> state, val |-> heap[state], at |-> 0]
    /\ writes = 0
    /\ lastEvent = "none"
    /\ dom = NewDom(heap[state])
    /\ upd = [n |-> 0, arg |-> heap[state], twice |-> FALSE,
             cache |-> Str(inputValue)]
    /\ dispatched = [n |-> 0, p |-> EmptyObj, from |-> state, w |-> 0, u |-> 0]
    /\ ops = 0

Next ==
    \/ \E p \in Partials : CallSetState(p)
    \/ \E l \in ListenerIds : Subscribe(l)
    \/ \E i \in DOMAIN unsubs : Unsubscribe(i)
    \/ GetState
    \/ Notify
    \/ ListenerReturn
    \/ ListenerThrow
    \/ ListenerUnsubscribes
    \/ ListenerSetsState
    \/ ListenerSubscribes
    \/ SetStateReturn

Spec == Init /\ [][Next]_vars

---------------------------------------------------------------------------
(* The store and a caller that goes on writing to the object it passed to  *)
(* createStore                                                             *)

\* the assignments the caller makes to top-level fields of its own object:
\* initialState.text = 'changed'; initialState.count = 1
CallerAssignments == { [text |-> Str("changed")], [count |-> Num1] }

\* the caller assigns to a field of the object it passed as initialState
CallerWrites(w) ==
    /\ Idle
    /\ ops < MaxOps
    /\ ops' = ops + 1
    /\ heap' = [heap EXCEPT ![1] = Merge(@, w)]
    /\ UNCHANGED << state, listeners, unsubs, stack, calls, log, invoked,
                    outcome, held, inputValue, writes, lastEvent, dom, upd,
                    dispatched >>

NextCaller ==
    \/ Next
    \/ \E w \in CallerAssignments : CallerWrites(w)

SpecCaller == Init /\ [][NextCaller]_vars

---------------------------------------------------------------------------
(* The wired demo, main.js *)

\* const store = createStore({ text: '' });
\* const interaction = InteractionModule(store.getState(), ...);
\* store.subscribe((newState) => { interaction.update(newState); });
InitDemo ==
    /\ heap = << [text |-> Str("")], [text |-> Str("")] >>
    /\ state = 2
    /\ inputValue = InitialValue(heap[state])
    /\ listeners = << UpdateListener >>
    /\ calls = 0
    /\ stack = <<>>
    /\ unsubs = << NewUnsub(UpdateListener) >>
    /\ log = <<>>
    /\ invoked = [l \in ListenerIds \cup { UpdateListener } |-> 0]
    /\ outcome = "idle"
    /\ held = [ref |-> state, val |-> heap[state], at |-> 0]
    /\ writes = 0
    /\ lastEvent = "none"
    /\ dom = NewDom(heap[state])
    /\ upd = [n |-> 0, arg |-> heap[state], twice |-> FALSE,
             cache |-> Str(inputValue)]
    /\ dispatched = [n |-> 0, p |-> EmptyObj, from |-> state, w |-> 0, u |-> 0]
    /\ ops = 0

NextDemo ==
    \/ \E e \in Events : DomEvent(e)
    \/ Notify
    \/ ListenerReturn
    \/ SetStateReturn

SpecDemo == InitDemo /\ [][NextDemo]_vars

\* An event handler runs to completion: once the browser has called it,
\* setState, forEach, the subscriber and update each run on to their return
\* without waiting for anything
RunToCompletion ==
    /\ WF_vars(Notify)
    /\ WF_vars(ListenerReturn)
    /\ WF_vars(SetStateReturn)

SpecDemoLive == SpecDemo /\ RunToCompletion

---------------------------------------------------------------------------
(* The component on its own: built from a store's snapshot, with an        *)
(* onAction that does nothing but count its calls, and with update called  *)
(* by whoever holds the component                                          *)

\* the state objects a component is built from
ComponentStates ==
    { [text |-> Str("")], EmptyObj, [text |-> ClickText], [text |-> QuoteText],
      [text |-> Num1] }

\* the state objects update is called with; no shape is required of them
UpdateStates ==
    { [text |-> Str("")], [text |-> ClickText], EmptyObj, [text |-> Num1] }

\* an event binding that reaches for the store itself:
\*   button.addEventListener(..., () => store.setState({ ... }))
ComponentEventDirect(e) ==
    /\ Idle
    /\ ops < MaxOps
    /\ e \in dom.bound
    /\ ops' = ops + 1
    /\ lastEvent' = e
    /\ dispatched' = dispatched
    /\ EnterSetState(EventPartial(e), stack)
    /\ UNCHANGED << listeners, unsubs, log, invoked, outcome, held,
                    inputValue, writes, dom, upd >>

\* a DOM event on the trigger: the binding calls onAction(partial) and
\* does nothing else
ComponentEvent(e) ==
    /\ Idle
    /\ ops < MaxOps
    /\ e \in dom.bound
    /\ ops' = ops + 1
    /\ lastEvent' = e
    /\ dispatched' = Dispatch(EventPartial(e))
    /\ UNCHANGED << heap, state, listeners, unsubs, stack, calls, log,
                    invoked, outcome, held, inputValue, writes, dom, upd >>

\* interaction.update(s) called directly
CallUpdate(s) ==
    /\ Idle
    /\ ops < MaxOps
    /\ ops' = ops + 1
    /\ RunUpdate(s)
    /\ UNCHANGED << heap, state, listeners, unsubs, stack, calls, log,
                    invoked, outcome, held, lastEvent, dispatched >>

\* const store = createStore(s0);
\* const interaction = InteractionModule(store.getState(), () => {});
InitComponent ==
    /\ \E s0 \in ComponentStates : heap = << s0, s0 >>
    /\ state = 2
    /\ inputValue = InitialValue(heap[state])
    /\ listeners = <<>>
    /\ unsubs = <<>>
    /\ stack = <<>>
    /\ calls = 0
    /\ log = <<>>
    /\ invoked = [l \in ListenerIds \cup { UpdateListener } |-> 0]
    /\ outcome = "idle"
    /\ held = [ref |-> state, val |-> heap[state], at |-> 0]
    /\ writes = 0
    /\ lastEvent = "none"
    /\ dom = NewDom(heap[state])
    /\ upd = [n |-> 0, arg |-> heap[state], twice |-> FALSE,
             cache |-> Str(inputValue)]
    /\ dispatched = [n |-> 0, p |-> EmptyObj, from |-> state, w |-> 0, u |-> 0]
    /\ ops = 0

NextComponent ==
    \/ \E e \in Events : ComponentEvent(e)
    \/ \E s \in UpdateStates : CallUpdate(s)

SpecComponent == InitComponent /\ [][NextComponent]_vars

---------------------------------------------------------------------------
(* Properties *)

\* the setState frame of a call that has just been entered
Entered == stack'[Len(stack')]

\* C1: for every current state s and every partial p, the snapshot that
\* setState(p) installs, which is what getState() returns from then on, is
\* the shallow merge of s and p: every key of p carries p's value, every key
\* of s that is not in p carries s's value, and there is no other key.
C1_SetStateInstallsShallowMerge ==
    [][calls' = calls + 1 =>
         LET s == heap[state]
             p == Entered.p
             s2 == heap'[state']
         IN  /\ DOMAIN s2 = DOMAIN s \cup DOMAIN p
             /\ \A k \in DOMAIN p : s2[k] = p[k]
             /\ \A k \in DOMAIN s \ DOMAIN p : s2[k] = s[k]]_vars

\* a call has overwritten a key of the state, kept another one that its
\* partial did not name, and returned
C1_Witness ==
    /\ outcome = "returned"
    /\ calls >= 2
    /\ heap[state] = [text |-> ClickText, count |-> Num1]
    /\ heap[state - 1] = [text |-> Str(""), count |-> Num1]

\* C2: no snapshot is changed in place: the reference a reader got from
\* getState() and the references the listeners received keep the field
\* values they had when obtained, and every setState call, whatever its
\* partial, installs a reference that no earlier object has.
C2_SnapshotsNeverMutated ==
    /\ [](/\ heap[held.ref] = held.val
          /\ \A i \in DOMAIN log : heap[log[i].ref] = log[i].val)
    /\ [][calls' = calls + 1 =>
            /\ state' \notin DOMAIN heap
            /\ state' \in DOMAIN heap'
            /\ \A r \in DOMAIN heap : heap'[r] = heap[r]]_vars

\* a reader holds an earlier snapshot while a later setState, whose partial
\* changed no value, has installed another reference with the same values
C2_Witness ==
    /\ calls >= 2
    /\ held.ref > 2
    /\ held.ref < state
    /\ heap[held.ref] = heap[state]
    /\ heap[held.ref] # heap[2]

\* the run so far is subscribe(l1), ..., subscribe(ln) followed by one
\* setState: one setState call was entered, every subscription was made
\* before it, and no unsubscribe function has been called
OneSetStateAfterSubscribes ==
    /\ calls = 1
    /\ \A i \in DOMAIN unsubs : unsubs[i].subAt = 0 /\ unsubs[i].calls = 0

\* each li was invoked exactly once, in the order l1..ln, with the snapshot
\* getState() returns afterwards
NotifiedOnceInOrder ==
    /\ Len(log) = Len(unsubs)
    /\ \A i \in DOMAIN log :
          /\ log[i].l = unsubs[i].l
          /\ log[i].ref = state

Cancelled(i) ==
    /\ unsubs[i].calls >= 1
    /\ unsubs[i].soleAt
    /\ unsubs[i].subsAt = SubCalls(unsubs[i].l)

\* C4 as stated: once a function returned by subscribe(l) has been called,
\* and as long as subscribe(l) is not called again, no step invokes l.
C4_Original ==
    [][\A i \in DOMAIN unsubs :
          (unsubs[i].calls >= 1 /\ unsubs[i].subsAt = SubCalls(unsubs[i].l))
              => invoked'[unsubs[i].l] = invoked[unsubs[i].l]]_vars

\* C4: once a function returned by subscribe(l) has been called while l
\* held at most one entry of the subscriber list, l is out of the list and
\* no setState invokes it, until subscribe(l) is called again.
C4_UnsubscribedNotInvoked ==
    [][\A i \in DOMAIN unsubs :
          Cancelled(i) =>
              /\ unsubs[i].l \notin Range(listeners)
              /\ invoked'[unsubs[i].l] = invoked[unsubs[i].l]]_vars

\* a listener subscribed once before the first setState was unsubscribed,
\* and a setState that notified another listener has returned since
\* without invoking it
C4_Witness ==
    \E i \in DOMAIN unsubs :
        /\ Cancelled(i)
        /\ SubCalls(unsubs[i].l) = 1
        /\ unsubs[i].calls = 1
        /\ invoked[unsubs[i].l] = 0
        /\ outcome = "returned"
        /\ Len(log) >= 1

\* C5 as stated: a second or later call of a function returned by subscribe
\* leaves the subscriber list as it was, whatever subscribe calls were made.
C5_Original ==
    [][\A i \in DOMAIN unsubs :
          (unsubs[i].calls >= 1 /\ unsubs'[i].calls > unsubs[i].calls)
              => listeners' = listeners]_vars

\* C5: a second or later call of a function returned by subscribe(l) leaves
\* the subscriber list as it was and raises no error, provided l held at
\* most one entry when the function was first called and subscribe(l) has
\* not been called since.
C5_UnsubscribeIdempotent ==
    [][\A i \in DOMAIN unsubs :
          (Cancelled(i) /\ unsubs'[i].calls > unsubs[i].calls)
              => listeners' = listeners /\ outcome' = outcome]_vars

\* an unsubscribe function has been called twice while another listener
\* stays subscribed
C5_Witness ==
    \E i \in DOMAIN unsubs :
        /\ Cancelled(i)
        /\ unsubs[i].calls = 2
        /\ i = 1
        /\ Len(listeners) >= 1

\* C6: notification is synchronous: a notification that has started and
\* not finished belongs to a setState call that has not returned yet, so
\* when a setState call returns normally every subscriber it notified has
\* finished running and nothing is left queued.
C6_NotificationSynchronous ==
    outcome # "threw" =>
        \A i \in DOMAIN log :
            \/ log[i].done
            \/ \E j \in DOMAIN stack :
                  stack[j].op = "setState" /\ stack[j].call = log[i].call

\* an outermost setState that notified two subscribers, one of which called
\* setState itself, has returned
C6_Witness ==
    /\ outcome = "returned"
    /\ Idle
    /\ Len(log) >= 3
    /\ \E i \in DOMAIN log : log[i].call # log[1].call
    /\ \A i \in DOMAIN log : log[i].done

\* l was subscribed exactly once and no unsubscribe function of it was called
Registered(l) ==
    /\ SubCalls(l) = 1
    /\ \A i \in DOMAIN unsubs : unsubs[i].l = l => unsubs[i].calls = 0

\* number of setState calls entered since subscribe(l)
CallsSince(l) ==
    calls - unsubs[CHOOSE i \in DOMAIN unsubs : unsubs[i].l = l].subAt

NoRoundCutShort ==
    \A i \in DOMAIN unsubs :
        Kind(unsubs[i].l) \notin { "thrower", "selfunsub" }

C8_ThrowPropagatesAndAborts ==
    outcome = "threw" =>
        /\ stack = <<>>
        /\ log # <<>>
        /\ Kind(log[Len(log)].l) = "thrower"
        /\ ~log[Len(log)].done

\* a subscriber threw in a setState call that had another subscriber after
\* it, which was not invoked
C8_Witness ==
    /\ outcome = "threw"
    /\ calls = 1
    /\ \A i \in DOMAIN unsubs : unsubs[i].subAt = 0 /\ unsubs[i].calls = 0
    /\ Len(listeners) = 3
    /\ Len(log) = 2
    /\ invoked[listeners[3]] = 0

\* C9: in the wired demo, whenever no event is being handled, the display
\* field's value is "Click!" if the most recent event on the trigger was
\* mousedown, and "" otherwise, also when no event has occurred yet.
C9_DisplayFollowsLastEvent ==
    Idle => inputValue = (IF lastEvent = "mousedown" THEN "Click!" ELSE "")

\* press start then press cancel: the display was written twice and is empty
C9_Witness ==
    /\ Idle
    /\ lastEvent = "mouseleave"
    /\ calls = 2
    /\ writes = 2
    /\ inputValue = ""

\* C10: in the wired demo, whenever no event is being handled, the display
\* field's value is the text field of the store's current snapshot.
C10_DisplayEqualsStoreText ==
    Idle => Str(inputValue) = Get(heap[state], "text")

\* an event has been handled and the display shows the marker
C10_Witness ==
    /\ Idle
    /\ outcome = "returned"
    /\ inputValue = "Click!"
    /\ heap[state].text = ClickText
    /\ state > 2

---------------------------------------------------------------------------
(* The component's bindings *)

\* C11: every DOM event on the trigger makes exactly one call of onAction,
\* with { text: 'Click!' } for mousedown and { text: '' } for mouseup and for
\* mouseleave; no other partial is dispatched, and the partial depends on
\* the event alone, never on what the component shows
C11_EventsDispatchFixedPartials ==
    /\ dispatched.n + upd.n = ops
    /\ dispatched.n = 0 => lastEvent = "none"
    /\ dispatched.n > 0 =>
          /\ lastEvent \in { "mousedown", "mouseup", "mouseleave" }
          /\ dispatched.p = IF lastEvent = "mousedown"
                            THEN [text |-> Str("Click!")]
                            ELSE [text |-> Str("")]

\* a mouseleave dispatched while the display shows Click!, after other events
C11_Witness ==
    /\ dispatched.n >= 2
    /\ lastEvent = "mouseleave"
    /\ inputValue = "Click!"
    /\ dispatched.p = [text |-> Str("")]

---------------------------------------------------------------------------
(* update *)

\* C12: selective update is minimal: whatever the state value s, when update
\* is called two times in a row with states that differ in no field, the
\* second call writes nothing to the DOM
C12_SecondUpdateWritesNothing ==
    [][(upd'.n = upd.n + 1 /\ upd.n >= 1 /\ upd'.arg = upd.arg)
          => writes' = writes]_vars

\* C13: update never rebuilds the component: after any sequence of update
\* calls the root, the display field and the trigger are the nodes the
\* constructor made, the three event listeners are still attached, and of
\* the whole DOM only the display field's value may differ from what the
\* constructor built
C13_UpdateKeepsNodesAndBindings ==
    /\ dom.root = 1
    /\ dom.display = 2
    /\ dom.trigger = 3
    /\ dom.bound = { "mousedown", "mouseup", "mouseleave" }
    /\ dom = NewDom(held.val)

\* update has written the display three times, the last time with Click!
C13_Witness ==
    /\ upd.n >= 3
    /\ writes >= 3
    /\ inputValue = "Click!"

\* C14: update is idempotent: whatever s and whatever the DOM showed before,
\* the DOM after update(s); update(s) is the DOM after the first update(s):
\* the second call leaves the display value and everything else as they are
C14_UpdateIdempotent ==
    [][(upd'.n = upd.n + 1 /\ upd.n >= 1 /\ upd'.arg = upd.arg)
          => (inputValue' = inputValue /\ dom' = dom)]_vars

\* update({}) called twice on a display that showed Click!: both calls
\* assigned, and the display shows what the first call left
C14_Witness ==
    /\ upd.twice
    /\ upd.n = 2
    /\ upd.arg = EmptyObj
    /\ heap[2] = [text |-> Str("Click!")]
    /\ writes = 2
    /\ inputValue = "undefined"

\* C15: the component is decoupled from the store: it reaches the store only
\* through onAction.  With an onAction that does nothing, no sequence of
\* events (and of update calls) changes the store's snapshot or its
\* subscriber list, and the state object the component was given is never
\* changed
C15_ComponentLeavesStoreAlone ==
    /\ state = 2
    /\ calls = 0
    /\ listeners = <<>>
    /\ Len(heap) = 2
    /\ held.ref = 2
    /\ heap[held.ref] = held.val
    /\ heap[1] = held.val

\* every event has been dispatched and update has been called, on a
\* component built from { text: 'Click!' }
C15_Witness ==
    /\ dispatched.n >= 3
    /\ lastEvent = "mousedown"
    /\ upd.n >= 1
    /\ inputValue = ""
    /\ held.val = [text |-> Str("Click!")]

---------------------------------------------------------------------------
(* getState and the snapshot seen by readers *)

\* a step that is one call of getState: an operation of the application
\* that is no setState, no subscribe and no call of an unsubscribe function
GetStateStep == ops' = ops + 1 /\ calls' = calls /\ unsubs' = unsubs

\* C16: getState returns the current snapshot by reference and has no
\* effect: the reference returned is the store's current one, two calls with
\* no setState between them return the identical reference, and the call
\* changes neither the snapshot nor the subscriber list and invokes no
\* listener
C16_GetStateReturnsCurrentReference ==
    [][GetStateStep =>
          /\ held'.ref = state
          /\ held.at = calls => held'.ref = held.ref
          /\ state' = state
          /\ heap' = heap
          /\ listeners' = listeners
          /\ invoked' = invoked
          /\ stack' = stack
          /\ log' = log]_vars

\* getState called twice after a setState that changed the text, with a
\* subscriber registered: both calls returned the new snapshot
C16_Witness ==
    /\ ops = 4
    /\ calls = 1
    /\ held.at = 1
    /\ held.ref = state
    /\ state = 3
    /\ heap[state] # heap[2]
    /\ Len(unsubs) = 1
    /\ listeners # <<>>
    /\ Idle

\* C17: a snapshot is never seen half applied.  setState replaces the
\* snapshot before any listener of that call runs, and what a listener is
\* handed, which is also what getState() returns while it runs, is a whole
\* new snapshot: never the one the call found, and, as long as no later
\* setState has replaced it again, the old fields with every field of the
\* partial laid over them
C17_SnapshotSeenWhole ==
    [][/\ calls' = calls + 1 => (state' # state /\ invoked' = invoked)
       /\ Len(log') = Len(log) + 1 =>
            LET e == log'[Len(log')]
                f == stack[Len(stack)]
                old == heap[f.prev]
            IN  /\ e.ref = state
                /\ e.val = heap[state]
                /\ e.ref # f.prev
                /\ DOMAIN f.p \subseteq DOMAIN e.val
                /\ calls = f.call =>
                      /\ DOMAIN e.val = DOMAIN old \cup DOMAIN f.p
                      /\ \A k \in DOMAIN f.p : e.val[k] = f.p[k]
                      /\ \A k \in DOMAIN old \ DOMAIN f.p :
                            e.val[k] = old[k]]_vars

\* a call whose partial names two fields, one new and one overwritten, has
\* notified a listener
C17_Witness ==
    \E i \in DOMAIN log :
        /\ log[i].val = [text |-> Str("Click!"), count |-> Num1]
        /\ log[i].ref = 3
        /\ heap[2] = [text |-> Str("")]
        /\ log[i].done

\* C18: setState accepts any key: a partial with keys the current state
\* lacks raises no error; the call goes on to its notifications, those keys
\* are in the next snapshot with the values supplied, and they are in what
\* the subscribers are handed
C18_NewKeysAccepted ==
    [][/\ calls' = calls + 1 =>
            LET f == stack'[Len(stack')]
            IN  /\ f.op = "setState"
                /\ outcome' = "running"
                /\ \A k \in DOMAIN f.p \ DOMAIN heap[state] :
                      /\ k \in DOMAIN heap'[state']
                      /\ heap'[state'][k] = f.p[k]
       /\ Len(log') = Len(log) + 1 =>
            LET e == log'[Len(log')]
                f == stack[Len(stack)]
            IN  \A k \in DOMAIN f.p \ DOMAIN heap[f.prev] :
                   /\ k \in DOMAIN e.val
                   /\ calls = f.call => e.val[k] = f.p[k]]_vars

\* setState({ count: 1 }) on a state that had no count has returned, and a
\* subscriber was handed the snapshot with count in it
C18_Witness ==
    /\ outcome = "returned"
    /\ calls = 1
    /\ heap[2] = [text |-> Str("")]
    /\ heap[state] = [text |-> Str(""), count |-> Num1]
    /\ \E i \in DOMAIN log : log[i].done /\ log[i].val = heap[state]

---------------------------------------------------------------------------
(* Construction of the component *)

\* C19: at construction the display field's value is initialState.text when
\* that field is present and not empty, and the empty string when it is
\* missing or empty; construction dispatches nothing through onAction
C19_InitialDisplayValue ==
    ops = 0 =>
        LET text == Get(held.val, "text")
        IN  /\ inputValue = IF text # Undefined /\ text # Str("")
                            THEN text.v ELSE ""
            /\ dispatched.n = 0

\* C20: in every state the readonly display input carries, beside
\* data-ref="display", a name attribute, name="text"
C20_DisplayHasNameAttribute ==
    /\ "readonly" \in DOMAIN dom.displayAttrs
    /\ "data-ref" \in DOMAIN dom.displayAttrs
    /\ dom.displayAttrs["data-ref"] = "display"
    /\ "name" \in DOMAIN dom.displayAttrs
    /\ dom.displayAttrs["name"] = "text"

---------------------------------------------------------------------------
(* Subscribers that come and go during a notification round *)

\* a step in which a setState call returns to its caller
Returns == stack # <<>> /\ stack[Len(stack)].op = "setState" /\ stack' = Pop

\* the listeners the call c has invoked, in the order of their invocation
RoundOf(c) == SelectSeq(log, LAMBDA e : e.call = c)

\* C21: setState invokes every registered subscriber: a listener that is in
\* the subscriber list from the start of a setState call to its return is
\* invoked during that call, also when another listener calls its own
\* unsubscribe function while being notified in that call
C21_EveryRegisteredSubscriberInvoked ==
    [][Returns =>
          LET f == stack[Len(stack)]
          IN  \A l \in Range(f.subs) \cap Range(listeners) :
                 \E i \in DOMAIN log : log[i].l = l /\ log[i].call = f.call]_vars

\* C22: each call of an unsubscribe function for listener l removes exactly
\* the first occurrence of l from the subscriber list when there is one: the
\* list afterwards is the list before with that single entry deleted, every
\* other entry, later duplicates of l included, stays, in the same order;
\* when l has no entry the list is left as it is
C22_UnsubscribeRemovesFirstOccurrence ==
    [][\A i \in DOMAIN unsubs :
          (Len(unsubs') = Len(unsubs) /\ unsubs'[i].calls = unsubs[i].calls + 1)
             => LET l == unsubs[i].l
                IN  IF \E j \in DOMAIN listeners : listeners[j] = l
                    THEN \E j \in DOMAIN listeners :
                            /\ listeners[j] = l
                            /\ \A m \in 1..(j - 1) : listeners[m] # l
                            /\ Len(listeners') = Len(listeners) - 1
                            /\ \A m \in 1..(j - 1) :
                                  listeners'[m] = listeners[m]
                            /\ \A m \in j..(Len(listeners) - 1) :
                                  listeners'[m] = listeners[m + 1]
                    ELSE listeners' = listeners]_vars

\* A was subscribed, then B, then A again, and one unsubscribe function of A
\* was called: B and the later entry of A are left
C22_Witness ==
    /\ Len(unsubs) = 3
    /\ unsubs[1].l = "A" /\ unsubs[2].l = "B" /\ unsubs[3].l = "A"
    /\ unsubs[1].calls + unsubs[3].calls = 1
    /\ listeners = << "B", "A" >>

\* no unsubscribe function of l has been called
NeverUnsubscribed(l) == \A i \in DOMAIN unsubs : unsubs[i].l = l => unsubs[i].calls = 0

\* the number of subscribe(l) calls made before the call c was entered
SubscribedBefore(l, c) ==
    Cardinality({ i \in DOMAIN unsubs : unsubs[i].l = l /\ unsubs[i].subAt < c })

\* how many times the call c has invoked l
InvokedBy(l, c) == Cardinality({ i \in DOMAIN log : log[i].l = l /\ log[i].call = c })

\* no listener has called its unsubscribe function since the outermost call
\* was entered
NoSelfUnsub == \A i \in DOMAIN log : Kind(log[i].l) # "selfunsub"

---------------------------------------------------------------------------
(* The decision of update *)

\* C24: the decision of update is that of a comparison with a cached
\* last-rendered value: in every sequence of update calls, update writes the
\* display value exactly when newState.text differs from the value rendered
\* by the previous write, or by the constructor when nothing was written yet
C24_DecisionIsCachedComparison ==
    [][upd'.n = upd.n + 1 =>
          ((writes' # writes) <=> (Get(upd'.arg, "text") # upd.cache))]_vars

---------------------------------------------------------------------------
(* The press state machine of the wired demo *)

\* the last event asked for the text the state already had: a mouseup or a
\* mouseleave in Idle, a mousedown in Active
Redundant == Get(heap[dispatched.from], "text") = Get(dispatched.p, "text")

\* C25: the press state machine has no guard: every mousedown, mouseup and
\* mouseleave dispatches, whatever the state is.  In the wired demo each
\* event installs a new snapshot and notifies the subscriber once, and an
\* event that asks for the text already there (mouseup or mouseleave in
\* Idle, mousedown in Active) does so without a write to the display value
C25_NoGuardOnEvents ==
    /\ dispatched.n = ops
    /\ calls = ops
    /\ (Idle /\ ops > 0) =>
          /\ state # dispatched.from
          /\ heap[state] = [text |-> Get(dispatched.p, "text")]
          /\ upd.n = dispatched.u + 1
          /\ upd.arg = heap[state]
          /\ Redundant => writes = dispatched.w

\* a second mousedown while the display shows Click! has run its round
C25_Witness ==
    /\ Idle
    /\ lastEvent = "mousedown"
    /\ Redundant
    /\ inputValue = "Click!"
    /\ state # dispatched.from
    /\ upd.n = dispatched.u + 1
    /\ writes = dispatched.w

---------------------------------------------------------------------------
(* The merge is shallow *)

\* C26: setState leaves every key that the partial does not name bound to
\* the identical value it had in the previous snapshot, for a nested object
\* the same reference; and a nested object supplied in the partial takes the
\* place of the old nested object as a whole: the new snapshot holds the
\* partial's object itself, not a merge of the two
C26_MergeIsShallow ==
    [][calls' = calls + 1 =>
          LET s == heap[state]
              p == stack'[Len(stack')].p
              s2 == heap'[state']
          IN  /\ \A k \in DOMAIN s \ DOMAIN p :
                    k \in DOMAIN s2 /\ s2[k] = s[k]
              /\ \A k \in DOMAIN p :
                    p[k].type = "object" => s2[k] = p[k]]_vars

\* the state held the object u1 under user; setState({ user: u2 }) put u2
\* there, and a later setState({ text: 'Click!' }) kept that reference
C26_Witness ==
    /\ calls = 3
    /\ heap[3] = [text |-> Str(""), user |-> Obj("u1")]
    /\ heap[4] = [text |-> Str(""), user |-> Obj("u2")]
    /\ heap[5] = [text |-> Str("Click!"), user |-> Obj("u2")]
    /\ state = 5
    /\ outcome = "returned"
    /\ \E i \in DOMAIN log : log[i].ref = 5

---------------------------------------------------------------------------
(* setState called from inside a listener *)

\* C27: at every listener invocation, under any nesting of setState calls
\* made from inside listeners, the argument handed to the listener is the
\* store's current snapshot at that moment, the reference getState() would
\* return; no listener is handed a snapshot that a later setState has
\* already replaced, so no invocation receives an older snapshot than an
\* earlier invocation did
C27_ListenerGetsCurrentSnapshot ==
    [][Len(log') = Len(log) + 1 =>
          LET e == log'[Len(log')]
          IN  /\ e.ref = state
              /\ state' = state
              /\ e.ref = Len(heap)
              /\ \A j \in DOMAIN log : log[j].ref <= e.ref]_vars

\* R called setState from inside the first round; when that nested round was
\* over, the first round went on and handed A the snapshot of the nested call
C27_Witness ==
    \E i, j \in DOMAIN log :
        /\ i < j
        /\ log[i].call = 2
        /\ log[j].call = 1
        /\ log[j].l = "A"
        /\ log[j].ref = 4
        /\ log[i].ref = 4
        /\ state = 4

\* the entries l holds in the list that were pushed after the call c was
\* entered
PushedSince(l, c) ==
    Cardinality({ i \in DOMAIN unsubs : unsubs[i].l = l /\ unsubs[i].subAt >= c })

\* the calls made from inside listeners of the call f.call have run their
\* rounds to the end: every listener they invoked has returned, and each of
\* them invoked every entry the list had when it was entered
NestedRoundsOver(f) ==
    /\ \A j \in DOMAIN log : log[j].call > f.call => log[j].done
    /\ \A c \in (f.call + 1)..calls : \A l \in ListenerIds :
          InvokedBy(l, c) = Count(listeners, l) - PushedSince(l, c)

\* the snapshot l received last is the store's current one
LastReceivedIsCurrent(l) ==
    /\ \E i \in DOMAIN log : log[i].l = l
    /\ \A i \in DOMAIN log :
          (log[i].l = l /\ \A j \in (i + 1)..Len(log) : log[j].l # l)
             => log[i].ref = state

\* a step of the outermost call's round, or its return, after a listener
\* has called setState and no listener has called its unsubscribe function
ReentrantRoundStep ==
    /\ stack # <<>>
    /\ stack[Len(stack)].op = "setState"
    /\ stack' # stack
    /\ calls' = calls
    /\ calls > stack[Len(stack)].call
    /\ NoSelfUnsub

\* C28 as stated: with setState called from inside listeners, the nested
\* round is over before the outer round goes on, and when the outermost
\* setState returns the snapshot every registered listener received last is
\* the store's current one
C28_Original ==
    [][ReentrantRoundStep =>
          /\ NestedRoundsOver(stack[Len(stack)])
          /\ (Returns /\ Len(stack) = 1) =>
                \A l \in Range(listeners) : LastReceivedIsCurrent(l)]_vars

\* C28: with setState called from inside listeners (finitely often, no
\* listener throwing or unsubscribing during the notification), the nested
\* round is over before the outer round goes on, and when the outermost
\* setState returns, the snapshot received last by every listener that was
\* registered when that call was made is the store's current one
C28_ReentrantRoundsNest ==
    [][ReentrantRoundStep =>
          /\ NestedRoundsOver(stack[Len(stack)])
          /\ (Returns /\ Len(stack) = 1) =>
                \A l \in Range(stack[1].subs) : LastReceivedIsCurrent(l)]_vars

\* A and R were registered; R called setState while notified, the nested
\* round notified A and R, and the outermost call has returned
C28_Witness ==
    /\ outcome = "returned"
    /\ Idle
    /\ listeners = << "A", "R" >>
    /\ calls = 2
    /\ state = 4
    /\ Len(log) = 4
    /\ log[1].l = "A" /\ log[1].call = 1 /\ log[1].ref = 3
    /\ log[3].l = "A" /\ log[3].call = 2 /\ log[3].ref = 4
    /\ log[4].l = "R" /\ log[4].call = 2 /\ log[4].done

\* the setState frames whose calls end with this step: the innermost one at
\* a return, all of them when an exception leaves the stack
EndingFrames ==
    IF Returns THEN { Len(stack) }
    ELSE IF stack # <<>> /\ stack' = <<>>
         THEN { n \in DOMAIN stack : stack[n].op = "setState" }
         ELSE {}

\* some subscription was made from inside a listener during the round of c
SubscribedInside(c) == \E i \in DOMAIN unsubs : unsubs[i].inside = c

\* l was subscribed from inside a listener before the call c was entered,
\* and never unsubscribed
SubscribedInsideEarlier(l, c) ==
    /\ NeverUnsubscribed(l)
    /\ \E i \in DOMAIN unsubs :
          unsubs[i].l = l /\ unsubs[i].inside # 0 /\ unsubs[i].subAt < c

\* the listeners the call of frame f invoked are the entries of the list as
\* the call found it, in order
RoundIsListAtStart(f) ==
    LET round == RoundOf(f.call)
    IN  [i \in DOMAIN round |-> round[i].l] = f.subs

---------------------------------------------------------------------------
(* A subscriber that throws *)

\* a step in which a subscriber's exception leaves the stack
Throws == stack # <<>> /\ stack' = <<>> /\ outcome' = "threw"

\* the entries of seq before the first entry of x
Before(seq, x) == { seq[i] : i \in 1..(IndexOf(seq, x) - 1) }

\* C30: a subscriber that throws does not roll the store back: when
\* setState(p) is left by a subscriber's exception, getState() returns the
\* new merged snapshot, the subscribers that precede the thrower in the list
\* have been notified with it, the subscriber list is what it was, and a
\* later setState works as usual: it installs its merge and starts its round
\* over the whole list
C30_ThrowDoesNotRollBack ==
    [][/\ Throws =>
            LET t == stack[Len(stack)]
                f == stack[Len(stack) - 1]
            IN  /\ state' = state
                /\ heap' = heap
                /\ state # f.prev
                /\ calls = f.call =>
                      /\ state = f.mine
                      /\ \A k \in DOMAIN f.p : heap[state][k] = f.p[k]
                      /\ \A k \in DOMAIN heap[f.prev] \ DOMAIN f.p :
                            heap[state][k] = heap[f.prev][k]
                /\ \A l \in Before(f.subs, t.l) :
                      \E i \in DOMAIN log :
                         /\ log[i].l = l
                         /\ log[i].call = f.call
                         /\ log[i].ref >= f.mine
                /\ listeners' = listeners
       /\ (calls' = calls + 1 /\ outcome = "threw") =>
            LET g == stack'[Len(stack')]
            IN  /\ state' # state
                /\ \A k \in DOMAIN g.p : heap'[state'][k] = g.p[k]
                /\ \A k \in DOMAIN heap[state] \ DOMAIN g.p :
                      heap'[state'][k] = heap[state][k]
                /\ g.k = 1
                /\ g.len = Len(listeners)
                /\ outcome' = "running"]_vars

---------------------------------------------------------------------------
\* The calls made so far in the wired demo, counted against the events
\* handled: one setState call and one dispatch per event, one update call
\* per event once its handler has returned (the one still to come while it
\* runs), and never a setState call inside another
OneCallOneUpdatePerEvent ==
    /\ calls = ops
    /\ dispatched.n = ops
    /\ Idle => upd.n = ops
    /\ ~Idle => /\ upd.n \in { ops - 1, ops }
                /\ Len(stack) <= 2
                /\ stack[1].op = "setState"
                /\ stack[1].call = ops
                /\ Len(stack) = 2 => stack[2].op = "listener"

\* update, and the write to the display it may make, call neither onAction
\* nor setState
UpdateDispatchesNothing ==
    (upd' # upd \/ inputValue' # inputValue)
        => /\ upd'.n = upd.n + 1
           /\ dispatched' = dispatched
           /\ calls' = calls
           /\ state' = state
           /\ ops' = ops

\* C31: in the wired demo the handling of one DOM event always terminates,
\* after exactly one setState call and exactly one update call: update never
\* calls onAction and writing the display value triggers no event, so store
\* notification never feeds back into dispatch
C31_EventHandlingTerminates ==
    /\ []OneCallOneUpdatePerEvent
    /\ [][UpdateDispatchesNothing]_vars
    /\ (~Idle) ~> Idle

\* four events handled, each by one setState call and one update call, two
\* of the updates having written the display
C31_Witness ==
    /\ Idle
    /\ ops = 4
    /\ calls = 4
    /\ upd.n = 4
    /\ dispatched.n = 4
    /\ writes >= 2

---------------------------------------------------------------------------
\* a step in which subscribe returns a new closure
SubscribeStep == Len(unsubs') = Len(unsubs) + 1

\* a step in which a closure that subscribe returned is called
UnsubscribeStep ==
    /\ Len(unsubs') = Len(unsubs)
    /\ \E i \in DOMAIN unsubs : unsubs'[i].calls = unsubs[i].calls + 1

\* what such a step leaves alone: the current reference, every snapshot ever
\* made, the number of setState calls, the invocations of every listener
\* and what the component shows
OnlyTheListChanges ==
    /\ state' = state
    /\ heap' = heap
    /\ calls' = calls
    /\ invoked' = invoked
    /\ log' = log
    /\ held' = held
    /\ upd' = upd
    /\ inputValue' = inputValue

\* the list after a subscribe is the list before with the listener appended;
\* after an unsubscribe it is the list before, or that list less one entry
ListChangedByOne ==
    /\ SubscribeStep =>
          /\ Len(listeners') = Len(listeners) + 1
          /\ SubSeq(listeners', 1, Len(listeners)) = listeners
          /\ listeners'[Len(listeners')] = unsubs'[Len(unsubs')].l
    /\ UnsubscribeStep =>
          \/ listeners' = listeners
          \/ \E i \in DOMAIN listeners : listeners' = SpliceOne(listeners, i)

\* a listener all of whose subscriptions were made by application code after
\* the latest setState call has never been invoked
NewSubscriberWaits ==
    \A l \in ListenerIds :
        ( /\ \E i \in DOMAIN unsubs : unsubs[i].l = l
          /\ \A i \in DOMAIN unsubs :
                unsubs[i].l = l => unsubs[i].subAt = calls /\ unsubs[i].inside = 0 )
            => invoked[l] = 0

\* C32: subscribe and the function it returns change only the subscriber
\* list: neither replaces or alters the current snapshot and neither invokes
\* a listener; a listener is invoked only by an iteration of setState's
\* forEach, so that a newly subscribed one receives nothing until the next
\* setState
C32_SubscribeChangesOnlyTheList ==
    /\ [][(SubscribeStep \/ UnsubscribeStep)
             => OnlyTheListChanges /\ ListChangedByOne]_vars
    /\ [][invoked' # invoked => ~Idle /\ Top.op = "setState"]_vars
    /\ []NewSubscriberWaits

\* after a setState that notified A, B was subscribed and A unsubscribed:
\* the list holds B alone, the snapshot is the one setState installed, A has
\* its one invocation and B none
C32_Witness ==
    /\ Idle
    /\ calls = 1
    /\ listeners = << "B" >>
    /\ Len(unsubs) = 2
    /\ unsubs[1].l = "A" /\ unsubs[1].calls = 1
    /\ unsubs[2].l = "B" /\ unsubs[2].subAt = 1
    /\ invoked["A"] = 1
    /\ invoked["B"] = 0
    /\ state = 3
    /\ heap[3] = [text |-> ClickText]

---------------------------------------------------------------------------
\* the references the store holds or has handed out: the current one, the
\* one getState last returned, those of the running setState calls and
\* those passed to listeners
StoreReferences ==
    { state, held.ref }
        \cup { stack[i].prev : i \in DOMAIN stack }
        \cup { stack[i].mine : i \in DOMAIN stack }
        \cup { log[i].ref : i \in DOMAIN log }

\* before the first setState the store's object is the copy made by
\* createStore: getState returns that reference, not the caller's, and its
\* fields are those the caller's object had when createStore was called
CopyAtCreation ==
    /\ 1 \notin StoreReferences
    /\ heap[2] \in InitialStates
    /\ ops = 0 => heap[2] = heap[1]
    /\ calls = 0 => /\ state = 2
                    /\ held = [ref |-> 2, val |-> heap[2], at |-> 0]

\* a step that changes the caller's object is a step of the caller, made
\* while no store function runs, and it changes nothing the store holds
CallerWriteStaysOutside ==
    heap'[1] # heap[1]
        => /\ Idle
           /\ stack' = stack
           /\ Len(heap') = Len(heap)
           /\ \A r \in 2..Len(heap) : heap'[r] = heap[r]
           /\ state' = state
           /\ held' = held
           /\ calls' = calls
           /\ invoked' = invoked

\* a step of setState, from its call to its return, leaves the caller's
\* object as it was
SetStateLeavesCallerObject ==
    (calls' # calls \/ ~Idle) => heap'[1] = heap[1]

\* C33: createStore takes a shallow copy of the caller's initial state: the
\* first getState() returns an object equal in value to initialState and of
\* another reference, so that later changes to top-level fields of the
\* caller's object do not appear in the store, and setState never alters
\* the caller's object
C33_CreateStoreCopiesInitialState ==
    /\ []CopyAtCreation
    /\ [][CallerWriteStaysOutside]_vars
    /\ [][SetStateLeavesCallerObject]_vars

\* the caller changed text in its own object, then setState({ count: 1 })
\* and getState(): the snapshot returned has the text given to createStore,
\* and the caller's object has no count
C33_Witness ==
    /\ Idle
    /\ heap[1] = [text |-> Str("changed")]
    /\ heap[2] = [text |-> Str("")]
    /\ calls = 1
    /\ state = 3
    /\ heap[3] = [text |-> Str(""), count |-> Num1]
    /\ held = [ref |-> 3, val |-> heap[3], at |-> 1]

=============================================================================
